---- MODULE Spec2Model ----
(***************************************************************************)
(* meteodetect (src/src/main.c): the chirp detector meteo_detect_t, its    *)
(* construction, per-sample feed and destruction, and the driving loop of  *)
(* main.                                                                   *)
(*                                                                         *)
(* Numbers.  SUFLOAT is the IEEE single-precision float.  A float that is  *)
(* zero or positive is the triple <<kind, m, e>>: kind 0 is the number     *)
(* m * 2^e, with 2^23 <= m < 2^24 and -149 <= e <= 104, or m < 2^23 and    *)
(* e = -149 for the subnormal numbers, or m = e = 0 for zero; kind 1 is    *)
(* +infinity, kind 2 is the value that is not a number.  Sums,             *)
(* differences, products and quotients are rounded to the nearest float,   *)
(* ties to even, as the hardware rounds them.  The parts of a complex      *)
(* number are integers that carry the sign of a zero.  The IIR filters and *)
(* the oscillator are library code: one feed call takes the two samples    *)
(* they deliver (y1 out of the first filter, y out of the second) from     *)
(* small sets, and computes everything else as main.c does.                *)
(***************************************************************************)
EXTENDS Integers, Sequences, FiniteSets

\* ------------------------------------------------------------- bounds
\* largest window length (powerbuf_len) a constructed detector has
MaxWin == 3
\* largest number of samples in the input file
MaxFeeds == 6
\* the window length and the number of samples of the runs with a long window
WideWin == 8
MaxFeedsWide == 9
\* the number of samples of the runs at the sample rate of main
MaxFeedsMain == 561

\* ---------------------------------------------------------- constants
LPF1_CUTOFF == 300
LPF2_CUTOFF == 50
\* POWER_RATIO = LPF2_CUTOFF / LPF1_CUTOFF and POWER_THRESHOLD = 2 *
\* POWER_RATIO, as fractions <<numerator, denominator>>
POWER_RATIO == <<LPF2_CUTOFF, LPF1_CUTOFF>>
POWER_THRESHOLD == <<2 * POWER_RATIO[1], POWER_RATIO[2]>>
\* MIN_CHIRP_DURATION = 0.07, in hundredths
MIN_CHIRP_DURATION == 7
\* the sample rate main constructs its detector with
MainRate == 8000

\* ------------------------------------------------------------- floats
FZero == <<0, 0, 0>>
\* the float +infinity: x / 0 for x > 0, and every result of 2^128 or more
Inf == <<1, 0, 0>>
\* the float 0/0
NaN == <<2, 0, 0>>

Pow2(k) == 2 ^ k
\* the number of binary digits of k
RECURSIVE BitLen(_)
BitLen(k) ==
  IF k = 0 THEN 0
  ELSE IF k >= 65536 THEN 16 + BitLen(k \div 65536)
  ELSE IF k >= 256 THEN 8 + BitLen(k \div 256)
  ELSE IF k >= 16 THEN 4 + BitLen(k \div 16)
  ELSE 1 + BitLen(k \div 2)

Max(a, b) == IF a >= b THEN a ELSE b
Min(a, b) == IF a <= b THEN a ELSE b

\* S / 2^s rounded to the nearest integer, ties to even, for s < BitLen(S);
\* sticky: the number rounded is a little more than S
RoundShift(S, s, sticky) ==
  IF s = 0 THEN S
  ELSE LET q == S \div Pow2(s)
           r == S % Pow2(s)
           h == Pow2(s - 1)
       IN IF r > h \/ (r = h /\ (sticky \/ q % 2 = 1)) THEN q + 1 ELSE q

\* the float nearest to S * 2^E (a little more than that if sticky): 24
\* binary digits, fewer below 2^-126 (the subnormal numbers end at 2^-149),
\* +infinity from 2^128 on
FRound(S, E, sticky) ==
  IF S = 0 THEN FZero
  ELSE LET L == BitLen(S)
           sh == Max(L - 24, 0 - 149 - E)
           q == IF sh <= 0 THEN S * Pow2(0 - sh)
                ELSE IF sh > L THEN 0
                ELSE IF sh = L
                  THEN (IF S > Pow2(L - 1) \/ sticky THEN 1 ELSE 0)
                ELSE RoundShift(S, sh, sticky)
           m == IF q = Pow2(24) THEN Pow2(23) ELSE q
           e == IF q = Pow2(24) THEN E + sh + 1 ELSE E + sh
       IN IF m = 0 THEN FZero
          ELSE IF e > 104 THEN Inf
          ELSE <<0, m, e>>

\* the conversion of an unsigned integer to float
FromInt(k) == FRound(k, 0, FALSE)

\* a float that is a positive number, as <<m, e>> with 2^23 <= m < 2^24
Norm(a) == <<a[2] * Pow2(24 - BitLen(a[2])), a[3] - (24 - BitLen(a[2]))>>

\* <<floor(num * 2^bits / den), the remainder>>, for den < 2^25, six binary
\* digits of the quotient at a time
RECURSIVE LongDiv(_, _, _)
LongDiv(num, den, bits) ==
  IF bits = 0 THEN <<num \div den, num % den>>
  ELSE LET c == IF bits >= 6 THEN 6 ELSE bits
           qr == LongDiv(num, den, bits - c)
           rc == qr[2] * Pow2(c)
       IN <<qr[1] * Pow2(c) + rc \div den, rc % den>>

\* the product x * y of two numbers below 2^24, as <<high, low>>: the
\* product is high * 2^24 + low
Mul24(x, y) ==
  LET x1 == x \div 4096
      x0 == x % 4096
      y1 == y \div 4096
      y0 == y % 4096
      mid == x1 * y0 + x0 * y1
      t == x0 * y0 + (mid % 4096) * 4096
  IN <<x1 * y1 + mid \div 4096 + t \div Pow2(24), t % Pow2(24)>>

\* float division s / nz
FDiv(s, nz) ==
  IF s = NaN \/ nz = NaN THEN NaN
  ELSE IF nz = FZero THEN (IF s = FZero THEN NaN ELSE Inf)
  ELSE IF s = Inf THEN (IF nz = Inf THEN NaN ELSE Inf)
  ELSE IF nz = Inf \/ s = FZero THEN FZero
  ELSE LET ns == Norm(s)
           nn == Norm(nz)
           qr == LongDiv(ns[1], nn[1], 25)
       IN FRound(qr[1], ns[2] - nn[2] - 25, qr[2] # 0)

\* float multiplication a * b
FMul(a, b) ==
  IF a = NaN \/ b = NaN THEN NaN
  ELSE IF a = Inf \/ b = Inf
    THEN (IF a = FZero \/ b = FZero THEN NaN ELSE Inf)
  ELSE IF a = FZero \/ b = FZero THEN FZero
  ELSE LET na == Norm(a)
           nb == Norm(b)
           hl == Mul24(na[1], nb[1])
       IN FRound(hl[1] * 4 + hl[2] \div Pow2(22), na[2] + nb[2] + 22,
                 hl[2] % Pow2(22) # 0)

\* float addition a + b
FAdd(a, b) ==
  IF a = NaN \/ b = NaN THEN NaN
  ELSE IF a = Inf \/ b = Inf THEN Inf
  ELSE IF a = FZero THEN b
  ELSE IF b = FZero THEN a
  ELSE LET hi == IF a[3] >= b[3] THEN a ELSE b
           lo == IF a[3] >= b[3] THEN b ELSE a
           d == hi[3] - lo[3]
       IN IF d >= 27 THEN hi
          ELSE IF d <= 3 THEN FRound(hi[2] * Pow2(d) + lo[2], lo[3], FALSE)
          ELSE FRound(hi[2] * 8 + (lo[2] \div Pow2(d - 3)), hi[3] - 3,
                      lo[2] % Pow2(d - 3) # 0)

\* the float comparisons a < b and a >= b: false when either is not a number
FLess(a, b) ==
  /\ a # NaN /\ b # NaN /\ a # Inf /\ a # b
  /\ \/ b = Inf
     \/ a = FZero
     \/ b # FZero /\ (a[3] < b[3] \/ (a[3] = b[3] /\ a[2] < b[2]))
FGeqStrict(a, b) == FLess(b, a)
FGeqNotLess(a, b) == ~FLess(a, b)
FGeq(a, b) == a # NaN /\ b # NaN /\ (a = b \/ FLess(b, a))

\* float subtraction a - b, for a >= b
FSub(a, b) ==
  IF a = NaN \/ b = NaN \/ b = Inf THEN NaN
  ELSE IF a = Inf \/ b = FZero THEN a
  ELSE LET d == a[3] - b[3]
           sh == d - 3
           cut == IF sh >= 24 THEN 0 ELSE b[2] \div Pow2(sh)
           st == IF sh >= 24 THEN TRUE ELSE b[2] % Pow2(sh) # 0
       IN IF d <= 3 THEN FRound(a[2] * Pow2(d) - b[2], b[3], FALSE)
          ELSE FRound(a[2] * 8 - cut - (IF st THEN 1 ELSE 0), a[3] - 3, st)

\* the float nearest to the fraction num / den
FromRatio(num, den) ==
  LET q == num \div den
      r == num % den
      k == Max(25 - BitLen(q), 0)
      qr == LongDiv(r, den, k)
  IN IF q = 0 THEN FDiv(FromInt(r), FromInt(den))
     ELSE FRound(q * Pow2(k) + qr[1], 0 - k, qr[2] # 0)

\* ceilf and floorf of a float that is a number, as integers
SU_CEIL(a) ==
  IF a = FZero THEN 0
  ELSE IF a[3] >= 0 THEN a[2] * Pow2(a[3])
  ELSE IF a[3] <= 0 - 24 THEN 1
  ELSE (a[2] + Pow2(0 - a[3]) - 1) \div Pow2(0 - a[3])
SU_FLOOR(a) ==
  IF a = FZero THEN 0
  ELSE IF a[3] >= 0 THEN a[2] * Pow2(a[3])
  ELSE IF a[3] <= 0 - 24 THEN 0
  ELSE a[2] \div Pow2(0 - a[3])

\* md->x += md->alpha * (pw - md->x): the difference, the product and the sum
\* each rounded; the difference is negative when pw < x
Ema(x, al, pw) ==
  IF FLess(pw, x) THEN FSub(x, FMul(al, FSub(x, pw)))
  ELSE FAdd(x, FMul(al, FSub(pw, x)))

\* ---------------------------------------------------- detector set-up
\* new->powerbuf_len = SU_CEIL(fs * MIN_CHIRP_DURATION): the product is
\* rounded to float before the ceiling is taken
PowerbufLen(fs) == SU_CEIL(FromRatio(fs * MIN_CHIRP_DURATION, 100))

\* new->energy_thres = POWER_THRESHOLD * new->powerbuf_len, stored as float
EnergyThres(len) == FromRatio(POWER_THRESHOLD[1] * len, POWER_THRESHOLD[2])

\* new->alpha = 1 - SU_EXP(-1. / (fs * MIN_CHIRP_DURATION)), stored as float.
\* SU_EXP is the C library's expf; AlphaTable has <<fs, alpha>> for the
\* sample rates of this model.
AlphaTable ==
  { <<14, <<0, 10729906, -24>>>>, <<28, <<0, 13409256, -25>>>>,
    <<42, <<0, 9674632, -25>>>>, <<56, <<0, 15110404, -26>>>>,
    <<112, <<0, 16072776, -27>>>>, <<126, <<0, 14386464, -27>>>>,
    <<8000, <<0, 15325696, -33>>>> }
Alpha(rate) == (CHOOSE row \in AlphaTable : row[1] = rate)[2]

\* the sample rate that gives the window length k
RateOfWin(k) == 14 * k
\* sample rates handed to meteo_detect_new: one per window length 1..MaxWin
SampleRates == { RateOfWin(k) : k \in 1..MaxWin }

\* a number <<high, low>> (high * 2^24 + low, low < 2^24) divided by 2^k,
\* k < 48: << the quotient as such a pair, whether a remainder is left >>
ShiftDown(x, k) ==
  IF k >= 24
    THEN << <<0, x[1] \div Pow2(k - 24)>>,
            x[1] % Pow2(k - 24) # 0 \/ x[2] # 0 >>
    ELSE << <<x[1] \div Pow2(k),
              x[2] \div Pow2(k) + (x[1] % Pow2(k)) * Pow2(24 - k)>>,
            x[2] % Pow2(k) # 0 >>
PairLess(x, y) == x[1] < y[1] \/ (x[1] = y[1] /\ x[2] < y[2])

\* whether ratio * len >= thres (with margin: >= thres * (1 + len / 2^23)),
\* in exact arithmetic: ratio[2] * len * 2^(ratio[3] + 23) against
\* thres[2] * (2^23 + len) * 2^thres[3]; len < 2^23, thres a positive number
ClearsThreshold(ratio, len, thres, margin) ==
  IF ratio = NaN \/ ratio = FZero THEN FALSE
  ELSE IF ratio = Inf THEN TRUE
  ELSE LET L == Mul24(ratio[2], len)
           R == Mul24(thres[2], Pow2(23) + (IF margin THEN len ELSE 0))
           d == ratio[3] + 23 - thres[3]
       IN IF d >= 48 THEN TRUE
          ELSE IF d <= 0 - 48 THEN FALSE
          ELSE IF d >= 0
            THEN LET sd == ShiftDown(R, d)
                 IN IF sd[2] THEN PairLess(sd[1], L) ELSE ~PairLess(L, sd[1])
          ELSE ~PairLess(ShiftDown(L, 0 - d)[1], R)

\* ------------------------------------------------------ complex numbers
\* a real or imaginary part: <<negative, magnitude>>, an integer that keeps
\* the sign of a zero (-0 is <<TRUE, 0>>)
PZero == <<FALSE, 0>>
POne == <<FALSE, 1>>
PNeg(a) == <<~a[1], a[2]>>
PVal(a) == IF a[1] THEN 0 - a[2] ELSE a[2]
PMul(a, b) == <<a[1] # b[1], a[2] * b[2]>>
\* a sum that is zero is -0 only if both terms are -0
PAdd(a, b) ==
  IF a[2] = 0 /\ b[2] = 0 THEN <<a[1] /\ b[1], 0>>
  ELSE LET v == PVal(a) + PVal(b)
       IN IF v < 0 THEN <<TRUE, 0 - v>> ELSE <<FALSE, v>>

\* complex numbers <<re, im>>
CZero == <<PZero, PZero>>
CMul(a, b) ==
  <<PAdd(PMul(a[1], b[1]), PNeg(PMul(a[2], b[2]))),
    PAdd(PMul(a[1], b[2]), PMul(a[2], b[1]))>>
SU_C_CONJ(a) == <<a[1], PNeg(a[2])>>
\* SU_C_REAL(y * SU_C_CONJ(y)) as float: re * re - im * (-im), the two
\* products and their difference each rounded
Power(y) ==
  FAdd(FromInt(y[1][2] * y[1][2]), FromInt(y[2][2] * y[2][2]))
\* carg, in eighths of a turn, of a value on an axis or on a diagonal:
\* atan2(im, re), which on the real axis is 0 for re >= +0 and half a turn
\* with the sign of the zero im for re <= -0
SU_C_ARG(a) ==
  IF a[2][2] > 0
    THEN LET up == IF a[1][2] = 0 THEN 2 ELSE IF a[1][1] THEN 3 ELSE 1
         IN IF a[2][1] THEN 0 - up ELSE up
  ELSE IF a[1][1] THEN (IF a[2][1] THEN 0 - 4 ELSE 4)
  ELSE 0

\* samples out of the filters
COne == <<POne, PZero>>
CImag == <<PZero, POne>>
\* a first-filter output of power 2^28 and a second-filter output of power
\* 2^30: after one of them the ratio s0 / n0 is far below, after the other
\* far above, POWER_THRESHOLD
CNoise == <<<<FALSE, 16384>>, PZero>>
CSignal == <<<<FALSE, 32768>>, PZero>>
\* what the two filters deliver in one feed call, <<y1, y>>: silence, equal
\* powers with two phases of y, a burst of noise, a burst of signal
Silence == <<CZero, CZero>>
FilterOutputs ==
  { Silence, <<COne, COne>>, <<COne, CImag>>, <<CNoise, CZero>>,
    <<CZero, CSignal>> }
\* for the runs with a long window: ratios that stay at POWER_THRESHOLD
\* (power 4765489 over 14296466), ratios a little above it (385641 over
\* 1156921), and a burst of noise
WideOutputs ==
  { << <<<<FALSE, 3779>>, <<FALSE, 125>>>>, <<<<FALSE, 2183>>, PZero>> >>,
    << <<<<FALSE, 1075>>, <<FALSE, 36>>>>, <<<<FALSE, 621>>, PZero>> >>,
    <<CNoise, CZero>> }
\* for the runs at the sample rate of main: a sample whose ratio (196) is
\* above the whole threshold of the window, a burst of noise, silence
MainOutputs ==
  { Silence, <<COne, <<<<FALSE, 14>>, PZero>>>>, <<CNoise, CZero>> }
\* in those runs the samples after the first MainBurst are silence
MainBurst == 2

\* if (++md->p == md->powerbuf_len) md->p = 0;
AdvanceIndexWrapEarly(q, len) == IF q + 1 >= len - 1 THEN 0 ELSE q + 1
AdvanceIndex(q, len) == IF q + 1 = len THEN 0 ELSE q + 1

\* integral = 0; for (i = 0; i < md->powerbuf_len; ++i) integral += powerbuf[i]
\* acc with buf[lo], ..., buf[hi - 1] added to it in that order, the sum rounded
\* after every term.  The run of slots is cut in two, the first half summed
\* to a value before the second is begun, to keep the evaluation shallow; the
\* additions and their order are those of the loop.
RECURSIVE SumFrom(_, _, _, _)
SumFrom(acc, buf, lo, hi) ==
  IF hi <= lo THEN acc
  ELSE IF hi = lo + 1 THEN FAdd(acc, buf[lo])
  ELSE CHOOSE r \in { SumFrom(v, buf, (lo + hi) \div 2, hi) :
                        v \in {SumFrom(acc, buf, lo, (lo + hi) \div 2)} } : TRUE
SumUpTo(buf, k) == SumFrom(FZero, buf, 0, k)
IntegralShort(buf, len) == SumUpTo(buf, len - 1)
Integral(buf, len) == SumUpTo(buf, len)

\* ---------------------------------------------- the chirp state machine
\* main.c:107-125.  st is [in_chirp, chirp_len, chirp_remaining]; the result
\* adds notify: whether the printf of the chirp-end branch ran.
ChirpStepEntryLenZero(st, integ, thres, len) ==
  IF st.in_chirp
    THEN IF FLess(integ, thres)
           THEN [in_chirp |-> FALSE, chirp_len |-> st.chirp_len,
                 chirp_remaining |-> st.chirp_remaining, notify |-> TRUE]
           ELSE [in_chirp |-> TRUE, chirp_len |-> st.chirp_len + 1,
                 chirp_remaining |-> st.chirp_remaining, notify |-> FALSE]
    ELSE IF FGeq(integ, thres)
           THEN [in_chirp |-> TRUE, chirp_len |-> 0,
                 chirp_remaining |-> len, notify |-> FALSE]
           ELSE [in_chirp |-> FALSE, chirp_len |-> st.chirp_len,
                 chirp_remaining |-> st.chirp_remaining, notify |-> FALSE]

ChirpStepNotifyOnEntry(st, integ, thres, len) ==
  IF st.in_chirp
    THEN IF FLess(integ, thres)
           THEN [in_chirp |-> FALSE, chirp_len |-> st.chirp_len,
                 chirp_remaining |-> st.chirp_remaining, notify |-> TRUE]
           ELSE [in_chirp |-> TRUE, chirp_len |-> st.chirp_len + 1,
                 chirp_remaining |-> st.chirp_remaining, notify |-> FALSE]
    ELSE IF FGeq(integ, thres)
           THEN [in_chirp |-> TRUE, chirp_len |-> len,
                 chirp_remaining |-> len, notify |-> TRUE]
           ELSE [in_chirp |-> FALSE, chirp_len |-> st.chirp_len,
                 chirp_remaining |-> st.chirp_remaining, notify |-> FALSE]

ChirpStep(st, integ, thres, len) ==
  IF st.in_chirp
    THEN IF FLess(integ, thres)
           THEN [in_chirp |-> FALSE, chirp_len |-> st.chirp_len,
                 chirp_remaining |-> st.chirp_remaining, notify |-> TRUE]
           ELSE [in_chirp |-> TRUE, chirp_len |-> st.chirp_len + 1,
                 chirp_remaining |-> st.chirp_remaining, notify |-> FALSE]
    ELSE IF FGeq(integ, thres)
           THEN [in_chirp |-> TRUE, chirp_len |-> len,
                 chirp_remaining |-> len, notify |-> FALSE]
           ELSE [in_chirp |-> FALSE, chirp_len |-> st.chirp_len,
                 chirp_remaining |-> st.chirp_remaining, notify |-> FALSE]

\* seconds = SU_FLOOR((md->n - md->chirp_len) / md->fs): the subtraction is
\* made in the unsigned type SUSCOUNT, so with cnt < len it wraps to a value
\* near the top of that type's range (USubWraps) and the seconds printed are
\* that value over fs; otherwise they are TimestampSeconds: the difference
\* converted to float, divided by the float fs, and the floor of that.
USubWraps(cnt, len) == cnt < len
TimestampSeconds(cnt, len, rate) ==
  SU_FLOOR(FDiv(FromInt(cnt - len), FromInt(rate)))

\* if (!md->in_chirp && md->chirp_remaining > 0) --md->chirp_remaining;
DrainAlways(inChirp, rem) == IF rem > 0 THEN rem - 1 ELSE rem
DrainUnguarded(inChirp, rem) == IF ~inChirp THEN rem - 1 ELSE rem
Drain(inChirp, rem) == IF ~inChirp /\ rem > 0 THEN rem - 1 ELSE rem

\* valid_data = md->chirp_remaining != 0;
ValidData(rem) == rem # 0

\* out = valid_data + (valid_data ? I * SU_C_ARG(md->delay_line[md->p]) : 0),
\* as <<real part, imaginary part in eighths of a turn>>
OutZero == <<0, 0>>
OutputPhaseAlways(valid, d) == <<IF valid THEN 1 ELSE 0, SU_C_ARG(d)>>
Output(valid, d) ==
  <<IF valid THEN 1 ELSE 0, IF valid THEN SU_C_ARG(d) ELSE 0>>

\* fwrite(&out, sizeof(SUCOMPLEX), 1, md->ofp): the number of samples in the
\* output file after the call
FwriteOnlyValid(count, valid) == IF valid THEN count + 1 ELSE count
Fwrite(count, valid) == count + 1

\* ------------------------------------------- construction, destruction
\* what meteo_detect_new acquires, in the order it acquires it
Steps == <<"instance", "lpf1", "lpf2", "powerbuf", "delay_line", "ofp">>
Resources == { Steps[i] : i \in 1..Len(Steps) }
\* the members of the struct that destroy looks at
Fields == Resources \ {"instance"}
FailPoints == Resources \cup {"none"}
StepOf(r) == CHOOSE i \in 1..Len(Steps) : Steps[i] = r
\* the resources acquired when the step failAt fails (all of them for "none")
Acquired(failAt) ==
  IF failAt = "none" THEN Resources
  ELSE { r \in Resources : StepOf(r) < StepOf(failAt) }

\* meteo_detect_destroy: the release count of every resource after the call.
\* flds[r] is whether member r is set (non-NULL, or an initialised filter: the
\* library's finalize releases only what its init acquired).
MeteoDetectDestroyNoCheck(flds, rc) == [r \in Resources |-> rc[r] + 1]
MeteoDetectDestroy(flds, rc) ==
  [r \in Resources |-> IF r = "instance" \/ flds[r] THEN rc[r] + 1 ELSE rc[r]]

\* the order in which meteo_detect_destroy releases
DestroyOrder == <<"ofp", "powerbuf", "delay_line", "lpf1", "lpf2", "instance">>
DestroyStepOf(r) == CHOOSE i \in 1..Len(DestroyOrder) : DestroyOrder[i] = r
\* the release counts when the call stops after its first done releases
MeteoDetectDestroyUpTo(flds, rc, done) ==
  [r \in Resources |->
     IF DestroyStepOf(r) <= done /\ (r = "instance" \/ flds[r])
       THEN rc[r] + 1 ELSE rc[r]]

\* the fail: label of meteo_detect_new: the pointer handed back to the caller
\* ("NULL", or "dangling": the address of the instance destroy just freed)
FailReturn(newIsSet) == IF newIsSet THEN "dangling" ELSE "NULL"

\* -------------------------------------------------------------- state
VARIABLES
  pc,              \* where main is: "start", "new", "check", "loop", "exited", "crashed"
  exitCode,        \* the process's exit code once pc = "exited" (-1 before)
  md,              \* main's md: "unset", "NULL", "valid" or "dangling"
  failedAt,        \* the step of meteo_detect_new that failed ("none": none did)
  flds,            \* which members of the struct are set (Fields -> BOOLEAN)
  relCount,        \* how many times each resource has been released
  fs, alpha, n, n0, s0,   \* struct meteo_detect: sample rate, averaging weight, sample count, the two powers
  powerbuf_len, p, powerbuf, delay_line,
  energy_thres, in_chirp, chirp_len, chirp_remaining, prev,
  integral,        \* feed's local: the windowed sum of the last call
  out,             \* feed's local: the output sample of the last call, <<re, im>>
  written,         \* number of samples fwrite has put in the output file
  notified,        \* number of lines printf has put on the console
  noteLen,         \* the chirp length printed by the last of them
  feeds,           \* number of meteo_detect_feed calls on the constructed detector
  silent,          \* whether both filters delivered zero in every one of them
  hiRun,           \* number of latest consecutive feeds whose ratio was >= energy_thres / powerbuf_len
  marginRun,       \* the same for ratios above that by the margin of ClearsThreshold
  validRun,        \* length of the current run of outputs with real part 1
  runEntries,      \* IDLE -> IN_CHIRP entries made during that run
  runNotes,        \* notifications printed since that run began
  sinceExit,       \* feeds since the last chirp end, that one included (0: none, or re-entered)
  tailValid,       \* how many of them had valid_data
  noteWrap,        \* whether the subtraction for the last line printed wrapped
  noteSec,         \* the seconds of the last line printed (0 if it wrapped)
  entryIdx,        \* while IN_CHIRP: the 0-based number of the feed call that entered
  recent,          \* the ratios of the latest feed calls, oldest first, at most powerbuf_len
  recentD,         \* the delay-line products of the same calls
  badFeeds,        \* meteo_detect_feed calls made on a failed construction's pointer
  badDestroys      \* meteo_detect_destroy calls made by main on such a pointer

lifeVars == <<pc, exitCode, md, failedAt, flds, relCount>>
detVars == <<fs, alpha, n, n0, s0, powerbuf_len, p, powerbuf, delay_line,
             energy_thres, in_chirp, chirp_len, chirp_remaining, prev>>
obsVars == <<integral, out, written, notified, noteLen, feeds, silent, hiRun,
             marginRun, validRun, runEntries, runNotes, sinceExit, tailValid,
             noteWrap, noteSec, entryIdx, recent, recentD>>
badVars == <<badFeeds, badDestroys>>
vars == <<lifeVars, detVars, obsVars, badVars>>

\* seq with v appended, cut to its last k elements
KeepLast(seq, v, k) ==
  IF Len(seq) < k THEN Append(seq, v) ELSE Append(Tail(seq), v)

Init ==
  /\ pc = "start" /\ exitCode = -1 /\ md = "unset" /\ failedAt = "none"
  /\ flds = [r \in Fields |-> FALSE]
  /\ relCount = [r \in Resources |-> 0]
  /\ fs = 0 /\ alpha = FZero /\ n = 0 /\ n0 = FZero /\ s0 = FZero
  /\ powerbuf_len = 0 /\ p = 0
  /\ powerbuf = [i \in {} |-> FZero] /\ delay_line = [i \in {} |-> CZero]
  /\ energy_thres = FZero /\ in_chirp = FALSE /\ chirp_len = 0
  /\ chirp_remaining = 0 /\ prev = CZero
  /\ integral = FZero /\ out = OutZero /\ written = 0 /\ notified = 0
  /\ noteLen = 0 /\ feeds = 0 /\ silent = TRUE /\ hiRun = 0 /\ marginRun = 0
  /\ validRun = 0
  /\ runEntries = 0 /\ runNotes = 0 /\ sinceExit = 0 /\ tailValid = 0
  /\ noteWrap = FALSE /\ noteSec = 0 /\ entryIdx = 0
  /\ recent = <<>> /\ recentD = <<>>
  /\ badFeeds = 0 /\ badDestroys = 0

\* main, up to the call of meteo_detect_new (main.c:194-202)
MainStart(argc, canOpen) ==
  /\ pc = "start"
  /\ IF argc # 2 \/ ~canOpen
       THEN pc' = "exited" /\ exitCode' = 1
       ELSE pc' = "new" /\ exitCode' = exitCode
  /\ UNCHANGED <<md, failedAt, flds, relCount, detVars, obsVars, badVars>>

\* meteo_detect_new(fsIn, fc, ofile), the step failAt failing (main.c:141-182)
MeteoDetectNew(fsIn, failAt) ==
  /\ pc = "new"
  /\ pc' = "check"
  /\ failedAt' = failAt
  /\ flds' = [r \in Fields |-> r \in Acquired(failAt)]
  /\ IF failAt = "none"
       THEN /\ md' = "valid"
            /\ relCount' = relCount
            /\ fs' = fsIn
            /\ alpha' = Alpha(fsIn)
            /\ powerbuf_len' = PowerbufLen(fsIn)
            /\ energy_thres' = EnergyThres(PowerbufLen(fsIn))
            /\ powerbuf' = [i \in 0..(PowerbufLen(fsIn) - 1) |-> FZero]
            /\ delay_line' = [i \in 0..(PowerbufLen(fsIn) - 1) |-> CZero]
       ELSE /\ md' = FailReturn("instance" \in Acquired(failAt))
            /\ relCount' = IF "instance" \in Acquired(failAt)
                             THEN MeteoDetectDestroy(flds', relCount)
                             ELSE relCount
            /\ UNCHANGED <<fs, alpha, powerbuf_len, energy_thres, powerbuf,
                           delay_line>>
  /\ UNCHANGED <<exitCode, n, n0, s0, p, in_chirp, chirp_len, chirp_remaining,
                 prev, obsVars, badVars>>

\* SU_TRYCATCH(md = meteo_detect_new(...), exit(EXIT_FAILURE)) (main.c:204-206)
MainCheck ==
  /\ pc = "check"
  /\ IF md = "NULL"
       THEN pc' = "exited" /\ exitCode' = 1
       ELSE pc' = "loop" /\ exitCode' = exitCode
  /\ UNCHANGED <<md, failedAt, flds, relCount, detVars, obsVars, badVars>>

\* meteo_detect_feed(md, x) on the constructed detector (main.c:72-139), called
\* by main's loop for one more sample read (main.c:208-209).  y1 is what the
\* oscillator and the first filter make of x, y what the second filter makes
\* of y1.
Feed(y1, y) ==
  /\ pc = "loop" /\ md = "valid"
  /\ \E nz \in {Ema(n0, alpha, Power(y1))} :
     \E sg \in {Ema(s0, alpha, Power(y))} :
     \E ratio \in {FDiv(sg, nz)} :
     \E integ \in {Integral([powerbuf EXCEPT ![p] = ratio], powerbuf_len)} :
     \E sm \in {ChirpStep([in_chirp |-> in_chirp, chirp_len |-> chirp_len,
                           chirp_remaining |-> chirp_remaining],
                          integ, energy_thres, powerbuf_len)} :
     LET pb == [powerbuf EXCEPT ![p] = ratio]
         dl == [delay_line EXCEPT ![p] = CMul(y, SU_C_CONJ(prev))]
         p1 == AdvanceIndex(p, powerbuf_len)
         rem == Drain(sm.in_chirp, sm.chirp_remaining)
         valid == ValidData(rem)
         entered == ~in_chirp /\ sm.in_chirp
         exited == in_chirp /\ ~sm.in_chirp
         note == IF sm.notify THEN 1 ELSE 0
         since == IF exited THEN 1
                  ELSE IF sm.in_chirp \/ sinceExit = 0 THEN 0
                  ELSE Min(sinceExit + 1, powerbuf_len + 1)
     IN /\ n0' = nz /\ s0' = sg
        /\ powerbuf' = pb /\ delay_line' = dl /\ p' = p1
        /\ integral' = integ
        /\ in_chirp' = sm.in_chirp
        /\ chirp_len' = sm.chirp_len
        /\ chirp_remaining' = rem
        /\ notified' = notified + note
        /\ noteLen' = IF sm.notify THEN chirp_len ELSE noteLen
        /\ out' = Output(valid, dl[p1])
        /\ written' = Fwrite(written, valid)
        /\ prev' = y
        /\ n' = n + 1
        /\ feeds' = feeds + 1
        /\ silent' = (silent /\ Power(y1) = FZero /\ Power(y) = FZero)
        /\ hiRun' = IF ClearsThreshold(ratio, powerbuf_len, energy_thres, FALSE)
                      THEN Min(hiRun + 1, powerbuf_len) ELSE 0
        /\ marginRun' = IF ClearsThreshold(ratio, powerbuf_len, energy_thres, TRUE)
                          THEN Min(marginRun + 1, powerbuf_len) ELSE 0
        /\ validRun' = IF valid THEN validRun + 1 ELSE 0
        /\ runEntries' = IF ~valid THEN 0
                         ELSE (IF validRun = 0 THEN 0 ELSE runEntries)
                              + (IF entered THEN 1 ELSE 0)
        /\ runNotes' = (IF validRun = 0 THEN 0 ELSE runNotes) + note
        /\ noteWrap' = IF sm.notify THEN USubWraps(n, chirp_len) ELSE noteWrap
        /\ noteSec' = IF ~sm.notify THEN noteSec
                      ELSE IF USubWraps(n, chirp_len) THEN 0
                      ELSE TimestampSeconds(n, chirp_len, fs)
        /\ entryIdx' = IF entered THEN feeds
                       ELSE IF sm.in_chirp THEN entryIdx ELSE 0
        /\ recent' = KeepLast(recent, ratio, powerbuf_len)
        /\ recentD' = KeepLast(recentD, CMul(y, SU_C_CONJ(prev)), powerbuf_len)
        /\ sinceExit' = since
        /\ tailValid' = IF since = 0 THEN 0
                        ELSE (IF exited THEN 0 ELSE tailValid)
                             + (IF valid THEN 1 ELSE 0)
  /\ UNCHANGED <<lifeVars, fs, alpha, powerbuf_len, energy_thres, badVars>>

\* meteo_detect_feed(md, sample) with md the pointer a failed construction
\* handed back: every access is to freed memory.  The call either faults or
\* returns.
FeedFreed(faults) ==
  /\ pc = "loop" /\ md = "dangling"
  /\ badFeeds < MaxFeeds
  /\ badFeeds' = badFeeds + 1
  /\ pc' = IF faults THEN "crashed" ELSE pc
  /\ UNCHANGED <<exitCode, md, failedAt, flds, relCount, detVars, obsVars,
                 badDestroys>>

\* the input is exhausted: meteo_detect_destroy(md); fclose(fp); return 0
\* (main.c:208-216)
MainFinish ==
  /\ pc = "loop" /\ md = "valid"
  /\ relCount' = MeteoDetectDestroy(flds, relCount)
  /\ pc' = "exited" /\ exitCode' = 0
  /\ UNCHANGED <<md, failedAt, flds, detVars, obsVars, badVars>>

\* the same with md the pointer a failed construction handed back: destroy
\* reads the freed members and releases again what they name, the instance
\* included.  The process can be killed in any of these releases, with the
\* done releases before that one made a second time, or, after destroy has
\* returned with all of them made (done = 6), in the fclose(fp) of main that
\* follows; if it is not killed (faults is false), main returns 0.
MainFinishFreed(done, faults) ==
  /\ pc = "loop" /\ md = "dangling"
  /\ (done < Len(DestroyOrder)) => faults
  /\ badDestroys' = badDestroys + 1
  /\ relCount' = MeteoDetectDestroyUpTo(flds, relCount, done)
  /\ IF faults
       THEN pc' = "crashed" /\ exitCode' = exitCode
       ELSE pc' = "exited" /\ exitCode' = 0
  /\ UNCHANGED <<md, failedAt, flds, detVars, obsVars, badFeeds>>

Next ==
  \/ \E argc \in 1..3, canOpen \in BOOLEAN : MainStart(argc, canOpen)
  \/ \E fsIn \in SampleRates, failAt \in FailPoints : MeteoDetectNew(fsIn, failAt)
  \/ MainCheck
  \/ \E io \in FilterOutputs : feeds < MaxFeeds /\ Feed(io[1], io[2])
  \/ \E faults \in BOOLEAN : FeedFreed(faults)
  \/ MainFinish
  \/ \E done \in 0..Len(DestroyOrder), faults \in BOOLEAN :
       MainFinishFreed(done, faults)

Spec == Init /\ [][Next]_vars

\* runs with the window length WideWin: a successful construction at the
\* sample rate that gives it, then feeds with ratios near the threshold
NextWide ==
  \/ MainStart(2, TRUE)
  \/ MeteoDetectNew(RateOfWin(WideWin), "none")
  \/ MainCheck
  \/ \E io \in WideOutputs : feeds < MaxFeedsWide /\ Feed(io[1], io[2])
  \/ MainFinish

SpecWide == Init /\ [][NextWide]_vars

\* runs of main as it is: the detector constructed with MainRate, a burst of
\* at most MainBurst samples, then silence
NextMain ==
  \/ MainStart(2, TRUE)
  \/ MeteoDetectNew(MainRate, "none")
  \/ MainCheck
  \/ \E io \in MainOutputs :
       /\ feeds < MaxFeedsMain
       /\ (feeds >= MainBurst) => (io = Silence)
       /\ Feed(io[1], io[2])
  \/ MainFinish

SpecMain == Init /\ [][NextMain]_vars

\* ============================================================== claims

\* C1: wherever meteo_detect_new fails, it hands back no instance: the caller
\* gets NULL, never the address of a partially built or released detector.
C1_FailureReturnsNull ==
  (pc = "check" /\ failedAt # "none") => md = "NULL"

\* C2: after a failed construction the process exits with code 1 and neither
\* meteo_detect_feed nor meteo_detect_destroy is called on the failed
\* instance; after a successful one and the end of the input it exits with
\* code 0, the detector destroyed exactly once.
C2_ExitCodes ==
  /\ (md # "unset" /\ failedAt # "none") =>
       /\ badFeeds = 0 /\ badDestroys = 0
       /\ pc # "crashed"
       /\ (pc = "exited" => exitCode = 1)
  /\ (md = "valid" /\ pc = "exited") =>
       (exitCode = 0 /\ relCount["instance"] = 1)

\* C3: when meteo_detect_new returns after a failure, the destroy call of its
\* fail: path has released the output file, the power buffer, the delay line
\* and the instance memory exactly once each if acquired, and not at all if
\* the failure came before their acquisition.
C3_FailPathReleases ==
  (pc = "check" /\ failedAt # "none") =>
    \A r \in {"instance", "powerbuf", "delay_line", "ofp"} :
      relCount[r] = IF r \in Acquired(failedAt) THEN 1 ELSE 0

C3_Witness ==
  /\ pc = "check" /\ failedAt = "ofp" /\ md = "dangling"
  /\ relCount["powerbuf"] = 1 /\ relCount["delay_line"] = 1
  /\ relCount["instance"] = 1 /\ relCount["ofp"] = 0

\* C4: a feed call whose windowed sum equals energy_thres ends IN_CHIRP (from
\* IDLE it enters; from IN_CHIRP it stays, chirp_len one more and nothing
\* printed), and a feed call leaves IN_CHIRP only with a windowed sum that is
\* a number strictly below energy_thres.
C4_EqualityIsAbove ==
  [][ (feeds' = feeds + 1) =>
        /\ (integral' = energy_thres) =>
             /\ in_chirp'
             /\ in_chirp => (chirp_len' = chirp_len + 1 /\ notified' = notified)
        /\ (in_chirp /\ ~in_chirp') =>
             FLess(integral', energy_thres) ]_vars

\* the last call continued a chirp with the sum exactly at the threshold
C4_Witness ==
  /\ feeds > 0 /\ integral = energy_thres
  /\ in_chirp /\ chirp_len > powerbuf_len

\* C5, as stated: once the ratios stored by powerbuf_len consecutive feed
\* calls were all at least energy_thres / powerbuf_len, the detector is
\* IN_CHIRP (at the last of those calls at the latest), and every chirp
\* length printed is >= powerbuf_len.
C5_SustainedRatioEnters ==
  /\ (md = "valid" /\ feeds > 0 /\ hiRun >= powerbuf_len) => in_chirp
  /\ (notified > 0) => noteLen >= powerbuf_len

\* C5, amended: the windowed sum is a float sum, rounded after every term, and
\* can come out below energy_thres although every term is at least
\* energy_thres / powerbuf_len.  Once the ratios stored by powerbuf_len
\* consecutive feed calls were all at least (energy_thres / powerbuf_len) *
\* (1 + powerbuf_len / 2^23), the detector is IN_CHIRP (at the last of those
\* calls at the latest), and every chirp length printed is >= powerbuf_len.
C5_MarginRatioEnters ==
  /\ (md = "valid" /\ feeds > 0 /\ marginRun >= powerbuf_len) => in_chirp
  /\ (notified > 0) => noteLen >= powerbuf_len

\* a full window of ratios just above the margin, the chirp entered by the
\* last of them
C5_Witness ==
  /\ powerbuf_len = WideWin /\ feeds = powerbuf_len
  /\ marginRun = powerbuf_len /\ in_chirp
  /\ chirp_len = powerbuf_len /\ FLess(energy_thres, integral)

\* C6, as stated: when the tail has drained after a chirp end without
\* re-entry, valid_data was true on exactly powerbuf_len calls since the end.
C6_TailValidWindowLen ==
  (sinceExit > 0 /\ chirp_remaining = 0) => tailValid = powerbuf_len

\* C6, amended: the feed call that ends a chirp already takes one off the
\* tail.  k calls after the chirp end, that call included and no re-entry,
\* chirp_remaining is powerbuf_len - k (0 from k = powerbuf_len on) and
\* valid_data was true on the first powerbuf_len - 1 of them only.
C6_TailDrain ==
  (sinceExit > 0) =>
    /\ chirp_remaining = Max(powerbuf_len - sinceExit, 0)
    /\ tailValid = Min(sinceExit, powerbuf_len - 1)

C6_Witness ==
  /\ powerbuf_len = 2 /\ sinceExit = 2
  /\ chirp_remaining = 0 /\ tailValid = 1 /\ out[1] = 0

\* C7, as stated: the run of valid outputs of an isolated chirp is
\* chirp_len + powerbuf_len samples long, and one notification is printed.
C7_RunIsChirpLenPlusWindow ==
  [][ (validRun > 0 /\ validRun' = 0 /\ runEntries = 1) =>
        (runNotes' = 1 /\ validRun = noteLen' + powerbuf_len) ]_vars

\* C7, amended: for an isolated chirp exactly one notification is printed and
\* the run of consecutive outputs with real part 1 is exactly as long as the
\* chirp length printed (not that plus powerbuf_len).
C7_RunIsChirpLen ==
  [][ (validRun > 0 /\ validRun' = 0 /\ runEntries = 1) =>
        (runNotes' = 1 /\ validRun = noteLen') ]_vars

\* one chirp, continued at least once, reported and drained
C7_Witness ==
  /\ powerbuf_len = 2 /\ notified = 1 /\ noteLen > powerbuf_len
  /\ ~in_chirp /\ chirp_remaining = 0 /\ sinceExit = 2
  /\ validRun = 0 /\ runNotes = 1 /\ out[1] = 0

\* C8: the output of a feed call has real part 1 if chirp_remaining is not 0
\* after the call and 0 otherwise, imaginary part 0 whenever the real part is
\* 0, and is (0, 0) as long as no chirp was ever entered.
C8_OutputEncoding ==
  (feeds > 0) =>
    /\ out[1] = IF chirp_remaining # 0 THEN 1 ELSE 0
    /\ (out[1] = 0) => (out[2] = 0)
    /\ (chirp_len = 0) => (out = OutZero)

\* an invalid output while the oldest delay-line entry has a phase
C8_Witness ==
  /\ feeds > 0 /\ out = OutZero /\ chirp_remaining = 0
  /\ SU_C_ARG(delay_line[p]) # 0

\* C9: after k feed calls the output file holds k samples and n = k.
C9_OneOutputPerFeed ==
  written = feeds /\ n = feeds

\* feeds through every branch: entry, exit with notification, idle output
C9_Witness ==
  /\ feeds >= 4 /\ written = feeds /\ n = feeds
  /\ notified >= 1 /\ out[1] = 0

\* C10: a step prints a notification exactly when it takes the detector from
\* IN_CHIRP to IDLE, and prints at most one; destroying a detector that is
\* still IN_CHIRP prints nothing.
C10_NotifyIffChirpEnd ==
  [][ /\ (notified' = notified + 1) <=> (in_chirp /\ ~in_chirp')
      /\ notified' \in {notified, notified + 1} ]_vars

\* destroyed during a second chirp: only the first was reported
C10_Witness ==
  pc = "exited" /\ md = "valid" /\ in_chirp /\ notified = 1

\* C12: as long as both filters delivered zero for every sample fed, n0 and
\* s0 are exactly 0, the ratio and the windowed sum are the undefined 0/0,
\* and the detector has never left IDLE: nothing printed, every output
\* invalid.
C12_SilentInputStaysIdle ==
  (md = "valid" /\ feeds > 0 /\ silent) =>
    /\ n0 = FZero /\ s0 = FZero /\ integral = NaN
    /\ ~in_chirp /\ chirp_len = 0 /\ chirp_remaining = 0
    /\ notified = 0 /\ out = OutZero

C12_Witness ==
  /\ md = "valid" /\ feeds = 3 /\ silent /\ n0 = FZero /\ integral = NaN
  /\ ~in_chirp /\ notified = 0 /\ written = 3

\* C13: between feed calls 0 <= p < powerbuf_len, and after k feed calls
\* p = k mod powerbuf_len.
C13_IndexInRange ==
  (md = "valid") =>
    /\ p \in 0..(powerbuf_len - 1)
    /\ p = feeds % powerbuf_len

\* the index has wrapped once and advanced again
C13_Witness ==
  md = "valid" /\ powerbuf_len = 2 /\ feeds = 3 /\ p = 1

\* C14: every step leaves 0 <= chirp_remaining <= powerbuf_len, and changes
\* chirp_remaining only by setting it to powerbuf_len on IDLE -> IN_CHIRP or
\* by taking 1 off it while it is positive and the call ends IDLE.
C14_TailBounds ==
  [][ /\ chirp_remaining' \in 0..powerbuf_len'
      /\ (chirp_remaining' # chirp_remaining) =>
           \/ (~in_chirp /\ in_chirp' /\ chirp_remaining' = powerbuf_len)
           \/ (~in_chirp' /\ chirp_remaining > 0
               /\ chirp_remaining' = chirp_remaining - 1) ]_vars

\* fed on after the tail has drained: it stays at 0
C14_Witness ==
  /\ powerbuf_len = 2 /\ sinceExit = powerbuf_len + 1
  /\ chirp_remaining = 0 /\ ~in_chirp

\* C15: chirp_len is set to powerbuf_len by the call that enters IN_CHIRP,
\* grows by 1 in every feed call that starts and ends IN_CHIRP, and is left
\* alone by the call that ends the chirp and by calls that start and end
\* IDLE; while IN_CHIRP it is at least powerbuf_len.
C15_ChirpLenChanges ==
  [][ /\ (~in_chirp /\ in_chirp') => chirp_len' = powerbuf_len
      /\ (in_chirp /\ in_chirp' /\ feeds' = feeds + 1) =>
           chirp_len' = chirp_len + 1
      /\ (in_chirp /\ ~in_chirp') => chirp_len' = chirp_len
      /\ (~in_chirp /\ ~in_chirp') => chirp_len' = chirp_len
      /\ in_chirp' => chirp_len' >= powerbuf_len' ]_vars

\* a second chirp that has been continued, the first one ended
C15_Witness ==
  in_chirp /\ chirp_len > powerbuf_len /\ notified >= 1

\* the window after k calls, as the claim has it: the j-th latest of the
\* ratios seq in slot (k - j) mod len, zero in the slots never written
WindowOf(seq, k, len) ==
  [i \in 0..(len - 1) |->
     IF \E j \in 1..Len(seq) : (k - j) % len = i
       THEN seq[Len(seq) + 1 - (CHOOSE j \in 1..Len(seq) : (k - j) % len = i)]
       ELSE FZero]

\* C16: after k feed calls powerbuf holds the ratios of the latest
\* min(k, powerbuf_len) calls, the j-th latest in slot (k - j) mod
\* powerbuf_len, the slots never written still 0; and the windowed sum of
\* the last call is the sum of exactly those ratios (the float sum, taken
\* slot by slot from slot 0 and rounded after every term).
C16_WindowHoldsRecent ==
  (md = "valid") =>
    /\ Len(recent) = Min(feeds, powerbuf_len)
    /\ \A j \in 1..Len(recent) :
         powerbuf[(feeds - j) % powerbuf_len] = recent[Len(recent) - j + 1]
    /\ \A i \in 0..(powerbuf_len - 1) : (i >= feeds) => powerbuf[i] = FZero
    /\ (feeds > 0) =>
         integral = SumUpTo(WindowOf(recent, feeds, powerbuf_len), powerbuf_len)

\* a full window of two different numbers, the older one overwritten next
C16_Witness ==
  /\ md = "valid" /\ powerbuf_len = 2 /\ feeds = 3
  /\ recent[1] # NaN /\ recent[2] # NaN /\ recent[1] # recent[2]
  /\ powerbuf[0] = recent[2] /\ powerbuf[1] = recent[1]

\* C17: after a feed call p is the slot of the oldest entry of both buffers:
\* the one stored powerbuf_len - 1 calls earlier, or a zero-initialised one
\* while fewer than powerbuf_len calls were made; a valid output carries the
\* phase of that delay-line entry.
C17_PhaseFromOldest ==
  (md = "valid" /\ feeds > 0) =>
    LET full == feeds >= powerbuf_len
        oldestD == IF full THEN recentD[1] ELSE CZero
        oldestR == IF full THEN recent[1] ELSE FZero
    IN /\ delay_line[p] = oldestD
       /\ powerbuf[p] = oldestR
       /\ (out[1] = 1) => out[2] = SU_C_ARG(oldestD)

\* a valid output whose phase is that of the older of two different entries
C17_Witness ==
  /\ md = "valid" /\ powerbuf_len = 2 /\ feeds >= 2
  /\ out[1] = 1 /\ out[2] # 0
  /\ SU_C_ARG(recentD[1]) # SU_C_ARG(recentD[2])

\* C18: whenever a notification is printed, n >= chirp_len, so that the
\* unsigned n - chirp_len does not wrap and the seconds printed are an
\* elapsed time between 0 and the time of the current sample.
C18_TimestampNoWrap ==
  (notified > 0) =>
    (~noteWrap /\ noteSec >= 0 /\ noteSec * fs <= n)

\* C19: while IN_CHIRP, n - chirp_len (as integers) is e - powerbuf_len + 1,
\* e the 0-based number of the feed call that entered the chirp, however
\* long the chirp has lasted.
C19_TimestampBase ==
  in_chirp => (n - chirp_len = entryIdx - powerbuf_len + 1)

\* a chirp entered by the third call and continued twice
C19_Witness ==
  /\ in_chirp /\ powerbuf_len = 2 /\ entryIdx = 2
  /\ chirp_len = powerbuf_len + 2 /\ n = 5

\* C20: between feed calls IN_CHIRP implies chirp_remaining = powerbuf_len,
\* so a call that ends IN_CHIRP emits a valid output, as does every call that
\* leaves chirp_remaining above 0.
C20_InChirpTailFull ==
  /\ in_chirp => (chirp_remaining = powerbuf_len /\ out[1] = 1)
  /\ (chirp_remaining > 0) => out[1] = 1

\* a chirp re-entered while the tail of the one before was draining
C20_Witness ==
  /\ in_chirp /\ powerbuf_len = 2 /\ runEntries = 2
  /\ chirp_remaining = 2 /\ notified = 1
====
